---- MODULE Spec2Model ----
(***************************************************************************)
(* Model of excel_gui_app.py: the parser core (clean_columns,              *)
(* coerce_types, detect_header_row, load_sheet, resolve_sheet_filter,      *)
(* load_workbook, add_wide_checks, to_long, validate_long) and the         *)
(* orchestrator process_files with its caller process.                     *)
(*                                                                         *)
(* A Python string is a sequence of tokens.  A token is one character      *)
(* (" ", "\t", "!", "_", a digit) or a run of letters kept whole           *)
(* ("Course", "Name", "Term"): every string operation of the code treats   *)
(* the letters of such a run alike.  A worksheet cell is a record          *)
(* [k, s, n]: k = "nan" (empty), "str" (text s) or "int" (number n).       *)
(***************************************************************************)
EXTENDS Integers, Sequences, FiniteSets, TLC

VARIABLES
    \* clean_columns applied once and twice
    columns_in, columns_1, columns_2, norm_pc,
    \* detect_header_row
    tmp, required_cols, header_pc, header_i,
    \* resolve_sheet_filter / load_workbook on one workbook
    resolved, loaded, sheet_pc,
    \* process_files and its caller process
    upload_paths, header_row, sheets, run_dir, frames,
    df_wide, df_long, val, summary, pc

normVars   == <<columns_in, columns_1, columns_2, norm_pc>>
headerVars == <<tmp, required_cols, header_pc, header_i>>
sheetVars  == <<resolved, loaded, sheet_pc>>
inputVars  == <<upload_paths, header_row, sheets>>
runVars    == <<run_dir, frames, df_wide, df_long, val, summary, pc>>
vars       == <<normVars, headerVars, sheetVars, inputVars, runVars>>

----------------------------------------------------------------------------
(* Generic helpers *)

Range(s) == {s[i] : i \in 1..Len(s)}

SeqsUpTo(S, n) == UNION {[1..k -> S] : k \in 0..n}

\* str.strip() and the regex class \s strip/match every whitespace character
WHITESPACE == {" ", "\t"}

\* characters outside [0-9A-Za-z_] that are not whitespace
PUNCTUATION == {"!", ":"}

RECURSIVE lstrip(_)
lstrip(s) ==
    IF s = <<>> THEN s
    ELSE IF Head(s) \in WHITESPACE THEN lstrip(Tail(s)) ELSE s

RECURSIVE rstrip(_)
rstrip(s) ==
    IF s = <<>> THEN s
    ELSE IF s[Len(s)] \in WHITESPACE THEN rstrip(SubSeq(s, 1, Len(s) - 1)) ELSE s

\* str.strip()
strip(s) == rstrip(lstrip(s))

\* str.replace(" ", ""): removes the space character only
remove_spaces(s) == SelectSeq(s, LAMBDA t : t # " ")

lower_token(t) ==
    CASE t = "A" -> "a"
      [] t = "B" -> "b"
      [] t = "C" -> "c"
      [] t = "D" -> "d"
      [] t = "F" -> "f"
      [] t = "W" -> "w"
      [] t = "I" -> "i"
      [] t = "CourseID" -> "courseid"
      [] t = "Course" -> "course"
      [] t = "Name" -> "name"
      [] t = "Term" -> "term"
      [] t = "Section" -> "section"
      [] t = "Enroll" -> "enroll"
      [] t = "Title" -> "title"
      [] OTHER -> t

\* str.lower()
lower(s) == [i \in 1..Len(s) |-> lower_token(s[i])]

----------------------------------------------------------------------------
(* clean_columns (lines 31-39) *)

\* a plausible slip: the run that becomes one underscore also swallows underscores
RECURSIVE collapse_whitespace_and_underscores(_)
collapse_whitespace_and_underscores(s) ==
    IF s = <<>> THEN s
    ELSE IF Head(s) \in WHITESPACE \cup {"_"}
         THEN LET rest == collapse_whitespace_and_underscores(Tail(s))
              IN  IF rest # <<>> /\ Head(rest) = "_" THEN rest ELSE <<"_">> \o rest
         ELSE <<Head(s)>> \o collapse_whitespace_and_underscores(Tail(s))

\* .str.replace(r"\s+", "_", regex=True): each maximal whitespace run -> one "_"
RECURSIVE collapse_whitespace(_)
collapse_whitespace(s) ==
    IF s = <<>> THEN s
    ELSE IF Head(s) \in WHITESPACE
         THEN <<"_">> \o collapse_whitespace(lstrip(s))
         ELSE <<Head(s)>> \o collapse_whitespace(Tail(s))

\* .str.replace(r"[^0-9A-Za-z_]+", "", regex=True)
strip_nonword(s) == SelectSeq(s, LAMBDA t : t \notin WHITESPACE \cup PUNCTUATION)

clean_label(s) == strip_nonword(collapse_whitespace(strip(s)))

CourseName  == <<"Course", "Name">>
Course_Name == <<"Course", "_", "Name">>

clean_columns(columns) ==
    LET out == [i \in 1..Len(columns) |-> clean_label(columns[i])]
    IN  IF CourseName \in Range(out) /\ Course_Name \notin Range(out)
        THEN [i \in 1..Len(out) |-> IF out[i] = CourseName THEN Course_Name ELSE out[i]]
        ELSE out

\* Inputs of the normalisation specification
MaxLabelLen == 3
LabelAlphabet == {" ", "\t", "!", "_", "Course", "Name", "x"}
RawLabels == SeqsUpTo(LabelAlphabet, MaxLabelLen)
\* a second column, so that the alias sees a table that already has Course_Name
OtherLabels == {Course_Name, CourseName, <<"Course", " ", "Name">>, <<"x">>}

NormInit ==
    /\ columns_in \in {<<l>> : l \in RawLabels}
                      \cup {<<l, o>> : l \in RawLabels, o \in OtherLabels}
    /\ columns_1 = <<>>
    /\ columns_2 = <<>>
    /\ norm_pc = "raw"

NormIdle ==
    /\ columns_in = <<>>
    /\ columns_1 = <<>>
    /\ columns_2 = <<>>
    /\ norm_pc = "idle"

NormalizeOnce ==
    /\ norm_pc = "raw"
    /\ columns_1' = clean_columns(columns_in)
    /\ norm_pc' = "once"
    /\ UNCHANGED <<columns_in, columns_2, headerVars, sheetVars, inputVars, runVars>>

NormalizeTwice ==
    /\ norm_pc = "once"
    /\ columns_2' = clean_columns(columns_1)
    /\ norm_pc' = "twice"
    /\ UNCHANGED <<columns_in, columns_1, headerVars, sheetVars, inputVars, runVars>>

----------------------------------------------------------------------------
(* detect_header_row (lines 51-60) *)

NaN == [k |-> "nan", s |-> <<>>, n |-> 0]
Str(s) == [k |-> "str", s |-> s, n |-> 0]
Num(n) == [k |-> "int", s |-> <<>>, n |-> n]

\* pd.notna(v)
notna(v) == v.k # "nan"

DIGITS == <<"0", "1", "2", "3", "4", "5", "6", "7", "8", "9">>

RECURSIVE digits_of(_)
digits_of(n) ==
    IF n < 10 THEN <<DIGITS[n + 1]>> ELSE digits_of(n \div 10) \o <<DIGITS[(n % 10) + 1]>>

\* str(v)
str(v) == IF v.k = "str" THEN v.s ELSE digits_of(v.n)

\* line 53: req = {c.lower().replace(" ", "") for c in required_cols}
required_labels(required) == {remove_spaces(lower(c)) : c \in required}

\* line 55: str(v).strip().lower().replace(" ", "")
cell_label(v) == remove_spaces(lower(strip(str(v))))

row_labels(row) == {cell_label(row[j]) : j \in {j \in 1..Len(row) : notna(row[j])}}

HeaderNotFound == [ok |-> FALSE, i |-> 0]

\* a plausible slip: keeps scanning and returns the last matching row
RECURSIVE scan_last(_, _, _, _)
scan_last(grid, req, i, found) ==
    IF i >= Len(grid) THEN found
    ELSE IF req \subseteq row_labels(grid[i + 1])
         THEN scan_last(grid, req, i + 1, [ok |-> TRUE, i |-> i])
         ELSE scan_last(grid, req, i + 1, found)

detect_header_row_last(grid, required) ==
    scan_last(grid, required_labels(required), 0, HeaderNotFound)

\* lines 54-60: rows are visited in index order, i is the zero-based row index
RECURSIVE scan_rows(_, _, _)
scan_rows(grid, req, i) ==
    IF i >= Len(grid) THEN HeaderNotFound
    ELSE IF req \subseteq row_labels(grid[i + 1]) THEN [ok |-> TRUE, i |-> i]
         ELSE scan_rows(grid, req, i + 1)

detect_header_row(grid, required) == scan_rows(grid, required_labels(required), 0)

\* Inputs of the header specification
MaxGridRows == 3
HeaderCells == {NaN, Str(<<"\t", "A">>), Str(<<"a", " ", "B">>), Str(<<"b", " ">>)}
HeaderRowPool == {<<c1, c2>> : c1 \in HeaderCells, c2 \in HeaderCells}
RequiredPool == {{<<"A">>}, {<<"A", " ", "b">>}, {<<"A">>, <<"B">>}}

HeaderInit ==
    /\ tmp \in SeqsUpTo(HeaderRowPool, MaxGridRows)
    /\ required_cols \in RequiredPool
    /\ header_pc = "call"
    /\ header_i = 0

HeaderIdle ==
    /\ tmp = <<>>
    /\ required_cols = {}
    /\ header_pc = "idle"
    /\ header_i = 0

DetectHeaderRow ==
    /\ header_pc = "call"
    /\ LET r == detect_header_row(tmp, required_cols)
       IN  /\ header_pc' = IF r.ok THEN "returned" ELSE "raised"
           /\ header_i' = r.i
    /\ UNCHANGED <<tmp, required_cols, normVars, sheetVars, inputVars, runVars>>

----------------------------------------------------------------------------
(* DataFrames: [columns, dtypes, data]; data is a sequence of rows, each a *)
(* sequence of cells aligned with columns.                                 *)

REQUIRED_COLS == << <<"CourseID">>, <<"Course", " ", "Name">>, <<"Term">>, <<"Section">>,
                    <<"Enroll">>, <<"A">>, <<"B">>, <<"C">>, <<"D">>, <<"F">>, <<"W">>, <<"I">> >>
HEADER_MINIMUM == << <<"CourseID">>, <<"Course", " ", "Name">>, <<"Term">>, <<"Section">>,
                     <<"A">>, <<"B">>, <<"C">>, <<"D">>, <<"F">> >>
GRADE_COLS  == << <<"A">>, <<"B">>, <<"C">>, <<"D">>, <<"F">>, <<"W">>, <<"I">> >>
TARGET_KEYS == << <<"CourseID">>, Course_Name, <<"Term">>, <<"Section">> >>

Enroll     == <<"Enroll">>
GradeTotal == <<"GradeTotal">>
EnrollDiff == <<"EnrollDiff">>
Grade      == <<"Grade">>
Count      == <<"Count">>
Pct        == <<"Pct">>

EmptyFrame == [columns |-> <<>>, dtypes |-> <<>>, data |-> <<>>]
Raised == [ok |-> FALSE, df |-> EmptyFrame]
Returned(df) == [ok |-> TRUE, df |-> df]

index_of(columns, c) == CHOOSE i \in 1..Len(columns) : columns[i] = c
has_col(df, c) == c \in Range(df.columns)
cell(df, r, c) == df.data[r][index_of(df.columns, c)]
dtype_of(df, c) == df.dtypes[index_of(df.columns, c)]

\* [c for c in <list> if c in df.columns]
present_in(list, df) == SelectSeq(list, LAMBDA c : has_col(df, c))

\* df[name] = <values>: a new column at the end
with_column(df, name, dtype, values) ==
    [columns |-> Append(df.columns, name),
     dtypes  |-> Append(df.dtypes, dtype),
     data    |-> [r \in 1..Len(df.data) |-> Append(df.data[r], values[r])]]

RECURSIVE sum_seq(_)
sum_seq(s) == IF s = <<>> THEN 0 ELSE Head(s) + sum_seq(Tail(s))

\* the dtype pandas infers for a column it read
inferred_dtype(cells) ==
    IF cells = <<>> \/ \E i \in 1..Len(cells) : cells[i].k = "str" THEN "object"
    ELSE IF \E i \in 1..Len(cells) : cells[i].k = "nan" THEN "float64"
    ELSE "int64"

\* pd.read_excel(..., skiprows=n): the first row left is the header, an empty
\* header cell is named "Unnamed: <position>"; nothing left gives an empty frame
read_excel(grid, skiprows) ==
    IF skiprows >= Len(grid) THEN EmptyFrame
    ELSE LET hdr  == grid[skiprows + 1]
             body == SubSeq(grid, skiprows + 2, Len(grid))
         IN  [columns |-> [j \in 1..Len(hdr) |->
                             IF notna(hdr[j]) THEN str(hdr[j])
                             ELSE <<"Unnamed", ":", " ">> \o digits_of(j - 1)],
              dtypes  |-> [j \in 1..Len(hdr) |->
                             inferred_dtype([r \in 1..Len(body) |-> body[r][j]])],
              data    |-> body]

----------------------------------------------------------------------------
(* coerce_types (lines 41-49) *)

\* astype("string") of one value
as_string(v, dtype) ==
    IF v.k = "int"
    THEN Str(digits_of(v.n) \o (IF dtype = "float64" THEN <<".", "0">> ELSE <<>>))
    ELSE v

\* astype("Int64") raises on a text value; the except clause keeps the column
int64_castable(cells) == \A i \in 1..Len(cells) : cells[i].k # "str"

coerce_types(df) ==
    LET string_cols == {<<"CourseID">>, Course_Name, <<"Term">>, <<"Section">>}
        int_cols    == {Enroll} \cup Range(GRADE_COLS)
        n == Len(df.columns)
        castable(j) == int64_castable([r \in 1..Len(df.data) |-> df.data[r][j]])
    IN  [columns |-> df.columns,
         dtypes  |-> [j \in 1..n |->
                        IF df.columns[j] \in string_cols THEN "string"
                        ELSE IF df.columns[j] \in int_cols /\ castable(j) THEN "Int64"
                        ELSE df.dtypes[j]],
         data    |-> [r \in 1..Len(df.data) |-> [j \in 1..n |->
                        IF df.columns[j] \in string_cols
                        THEN as_string(df.data[r][j], df.dtypes[j])
                        ELSE df.data[r][j]]]]

----------------------------------------------------------------------------
(* load_sheet (lines 62-70); header_row = -1 stands for None.  A workbook  *)
(* is [name, sheets], a sheet [name, grid].                                *)

None == -1

sheet_names(xl) == [i \in 1..Len(xl.sheets) |-> xl.sheets[i].name]
grid_of(xl, sheet_name) ==
    (CHOOSE sh \in Range(xl.sheets) : sh.name = sheet_name).grid

load_sheet(xlsx_path, sheet_name, hdr_row) ==
    LET grid == grid_of(xlsx_path, sheet_name)
        det  == IF hdr_row = None THEN detect_header_row(grid, Range(HEADER_MINIMUM))
                ELSE [ok |-> TRUE, i |-> hdr_row]
    IN  IF ~det.ok THEN Raised
        ELSE LET raw == read_excel(grid, det.i)
                 df0 == [raw EXCEPT !.columns = clean_columns(raw.columns)]
                 df1 == coerce_types(df0)
                 df2 == with_column(df1, <<"Sheet">>, "object",
                                    [r \in 1..Len(df1.data) |-> Str(sheet_name)])
             IN  Returned(with_column(df2, <<"SourceFile">>, "object",
                                      [r \in 1..Len(df2.data) |-> Str(xlsx_path.name)]))

----------------------------------------------------------------------------
(* resolve_sheet_filter (lines 72-85) *)

isdigit(s) == s # <<>> /\ \A i \in 1..Len(s) : s[i] \in Range(DIGITS)

digit_value(t) == (CHOOSE d \in 1..Len(DIGITS) : DIGITS[d] = t) - 1

RECURSIVE int(_)
int(s) == IF s = <<>> THEN 0 ELSE 10 * int(SubSeq(s, 1, Len(s) - 1)) + digit_value(s[Len(s)])

InvalidSelector == [ok |-> FALSE, names |-> <<>>]

\* a plausible slip: a selector that does not resolve is dropped, not reported
RECURSIVE resolve_skipping(_, _, _)
resolve_skipping(names, selectors, acc) ==
    IF selectors = <<>> THEN [ok |-> TRUE, names |-> acc]
    ELSE LET s == strip(Head(selectors))
         IN  IF s = <<>> THEN resolve_skipping(names, Tail(selectors), acc)
             ELSE IF isdigit(s)
                  THEN IF int(s) < 0 \/ int(s) >= Len(names)
                       THEN resolve_skipping(names, Tail(selectors), acc)
                       ELSE resolve_skipping(names, Tail(selectors),
                                             Append(acc, names[int(s) + 1]))
                  ELSE IF s \notin Range(names)
                       THEN resolve_skipping(names, Tail(selectors), acc)
                       ELSE resolve_skipping(names, Tail(selectors), Append(acc, s))

\* lines 75-84, the loop over the selectors
RECURSIVE resolve_each(_, _, _)
resolve_each(names, selectors, acc) ==
    IF selectors = <<>> THEN [ok |-> TRUE, names |-> acc]
    ELSE LET s == strip(Head(selectors))
         IN  IF s = <<>> THEN resolve_each(names, Tail(selectors), acc)
             ELSE IF isdigit(s)
                  THEN IF int(s) < 0 \/ int(s) >= Len(names) THEN InvalidSelector
                       ELSE resolve_each(names, Tail(selectors),
                                         Append(acc, names[int(s) + 1]))
                  ELSE IF s \notin Range(names) THEN InvalidSelector
                       ELSE resolve_each(names, Tail(selectors), Append(acc, s))

\* sheets = <<>> stands for None as well: line 73 tests "not sheets"
resolve_sheet_filter(names, selectors) ==
    IF selectors = <<>> THEN [ok |-> TRUE, names |-> names]
    ELSE resolve_each(names, selectors, <<>>)

----------------------------------------------------------------------------
(* pd.concat(frames, ignore_index=True) and load_workbook (lines 87-91)    *)

RECURSIVE union_columns(_, _)
union_columns(fs, acc) ==
    IF fs = <<>> THEN acc
    ELSE union_columns(Tail(fs),
             acc \o SelectSeq(Head(fs).columns, LAMBDA c : c \notin Range(acc)))

RECURSIVE flatten(_)
flatten(ss) == IF ss = <<>> THEN <<>> ELSE Head(ss) \o flatten(Tail(ss))

\* the columns are the union in order of first appearance; a frame without a
\* column contributes missing values; frames that disagree on a column's dtype
\* give an object column.  pd.concat of no frame raises.
concat(fs) ==
    IF fs = <<>> THEN Raised
    ELSE LET cols == union_columns(fs, <<>>)
             dts(c) == {dtype_of(fs[i], c) : i \in {i \in 1..Len(fs) : has_col(fs[i], c)}}
             realign(f) == [r \in 1..Len(f.data) |-> [j \in 1..Len(cols) |->
                              IF has_col(f, cols[j]) THEN cell(f, r, cols[j]) ELSE NaN]]
         IN  Returned([columns |-> cols,
                       dtypes  |-> [j \in 1..Len(cols) |->
                                      IF Cardinality(dts(cols[j])) = 1
                                      THEN CHOOSE d \in dts(cols[j]) : TRUE
                                      ELSE "object"],
                       data    |-> flatten([i \in 1..Len(fs) |-> realign(fs[i])])])

load_workbook(xlsx_path, hdr_row, selectors) ==
    LET to_load == resolve_sheet_filter(sheet_names(xlsx_path), selectors)
    IN  IF ~to_load.ok THEN Raised
        ELSE LET loads == [i \in 1..Len(to_load.names) |->
                             load_sheet(xlsx_path, to_load.names[i], hdr_row)]
             IN  IF \E i \in 1..Len(loads) : ~loads[i].ok THEN Raised
                 ELSE concat([i \in 1..Len(loads) |-> loads[i].df])

----------------------------------------------------------------------------
(* add_wide_checks (lines 103-110) *)

\* dtypes that DataFrame.sum(numeric_only=True) keeps
NUMERIC_DTYPES == {"Int64", "int64", "float64", "Float64"}

int_or_zero(v) == IF v.k = "int" THEN v.n ELSE 0

\* line 107: out[present].sum(axis=1, numeric_only=True) for row r: the columns
\* that are not numeric are dropped from the sum, missing values count as 0
grade_total(df, r) ==
    LET present == present_in(GRADE_COLS, df)
        numeric == SelectSeq(present, LAMBDA c : dtype_of(df, c) \in NUMERIC_DTYPES)
    IN  sum_seq([i \in 1..Len(numeric) |-> int_or_zero(cell(df, r, numeric[i]))])

add_wide_checks(df) ==
    LET present == present_in(GRADE_COLS, df)
        rows    == 1..Len(df.data)
    IN  IF present = <<>> THEN Returned(df)
        ELSE LET out == with_column(df, GradeTotal, "Int64",
                                    [r \in rows |-> Num(grade_total(df, r))])
             IN  IF ~has_col(out, Enroll) THEN Returned(out)
                 \* line 109: astype("Float64") raises on a text value
                 ELSE IF \E r \in rows : cell(out, r, Enroll).k = "str" THEN Raised
                 ELSE Returned(with_column(out, EnrollDiff, "Float64",
                          [r \in rows |->
                             IF cell(out, r, Enroll).k = "nan" THEN NaN
                             ELSE Num(cell(out, r, Enroll).n - cell(out, r, GradeTotal).n)]))

----------------------------------------------------------------------------
(* to_long (lines 93-101) *)

\* Pct is a float; the model keeps it in units of 1/PctScale, rounded down
PctScale == 1000000

\* df.melt(id_vars, value_vars, var_name="Grade", value_name="Count"): one
\* block of rows per value column, in column order
melt(df, id_vars, value_vars) ==
    LET N == Len(df.data)
        K == Len(value_vars)
        ids(r) == [j \in 1..Len(id_vars) |-> cell(df, r, id_vars[j])]
    IN  [columns |-> id_vars \o <<Grade, Count>>,
         dtypes  |-> [j \in 1..Len(id_vars) |-> dtype_of(df, id_vars[j])]
                     \o <<"object", "object">>,
         data    |-> [m \in 1..(N * K) |->
                        LET g == value_vars[((m - 1) \div N) + 1]
                            r == ((m - 1) % N) + 1
                        IN  ids(r) \o <<Str(g), cell(df, r, g)>>]]

\* the values of the key columns of row r
key_of(df, keys, r) == [i \in 1..Len(keys) |-> cell(df, r, keys[i])]

\* a plausible slip: the section total is taken over the first key column only
group_total_first_key(out, keys, r) ==
    LET k1 == SubSeq(keys, 1, 1)
    IN  sum_seq([q \in 1..Len(out.data) |->
                   IF key_of(out, k1, q) = key_of(out, k1, r)
                   THEN cell(out, q, Count).n ELSE 0])

\* line 99: out.groupby(keys, dropna=False)["Count"].transform("sum") at row r
group_total(out, keys, r) ==
    sum_seq([q \in 1..Len(out.data) |->
               IF key_of(out, keys, q) = key_of(out, keys, r)
               THEN cell(out, q, Count).n ELSE 0])

\* line 100: Count / totals as a float; 0 / 0 is not-a-number
pct_of(count, total) ==
    IF total = 0 THEN NaN ELSE Num((count * PctScale) \div total)

\* a plausible slip: the melt drops the missing counts instead of keeping them
to_long_dropna(df, empty_melt_raises) ==
    LET grade_cols == present_in(GRADE_COLS, df)
        id_vars    == SelectSeq(df.columns, LAMBDA c : c \notin Range(grade_cols))
        melted     == melt(df, id_vars, grade_cols)
        kept       == [melted EXCEPT !.data =
                          SelectSeq(melted.data, LAMBDA row : row[Len(row)].k # "nan")]
        out        == [kept EXCEPT !.data = [m \in 1..Len(kept.data) |->
                          [kept.data[m] EXCEPT ![Len(kept.columns)] = Num(int_or_zero(@))]]]
        keys       == present_in(TARGET_KEYS, out)
    IN  IF \E m \in 1..Len(kept.data) : cell(kept, m, Count).k = "str" THEN Raised
        ELSE IF keys = <<>> /\ Len(out.data) > 0 THEN Raised
        ELSE Returned(with_column(out, Pct, "float64",
                 [m \in 1..Len(out.data) |->
                    pct_of(cell(out, m, Count).n, group_total(out, keys, m))]))

\* empty_melt_raises: melting no value column gives an empty table or raises,
\* depending on the pandas release
to_long(df, empty_melt_raises) ==
    LET grade_cols == present_in(GRADE_COLS, df)
        id_vars    == SelectSeq(df.columns, LAMBDA c : c \notin Range(grade_cols))
        melted     == melt(df, id_vars, grade_cols)
        \* line 97: fillna(0).astype("Int64")
        out        == [melted EXCEPT !.data = [m \in 1..Len(melted.data) |->
                          [melted.data[m] EXCEPT ![Len(melted.columns)] =
                              Num(int_or_zero(@))]]]
        keys       == present_in(TARGET_KEYS, out)
    IN  IF grade_cols = <<>> /\ empty_melt_raises THEN Raised
        ELSE IF \E m \in 1..Len(melted.data) : cell(melted, m, Count).k = "str"
             THEN Raised
        \* groupby with no key on a non-empty table: "No group keys passed!"
        ELSE IF keys = <<>> /\ Len(out.data) > 0 THEN Raised
        ELSE Returned(with_column(out, Pct, "float64",
                 [m \in 1..Len(out.data) |->
                    pct_of(cell(out, m, Count).n, group_total(out, keys, m))]))

----------------------------------------------------------------------------
(* validate_long (lines 112-121) *)

\* pct_sum.round(3), in thousandths, and .between(0.99, 1.01)
PctLow  == 990
PctHigh == 1010
round3(x) == (x + (PctScale \div 2000)) \div (PctScale \div 1000)

\* a plausible slip: a section counts as non-empty when its total is not negative
ok_nonzero_lenient(total_counts) == total_counts >= 0

\* line 120
ok_nonzero_of(total_counts) == total_counts > 0

\* line 119
ok_pct_sum_of(pct_sum) == round3(pct_sum) >= PctLow /\ round3(pct_sum) <= PctHigh

validate_long(long) ==
    LET keys == present_in(TARGET_KEYS, long)
        n    == Len(long.data)
        groups == {key_of(long, keys, r) : r \in 1..n}
        total(g) == sum_seq([r \in 1..n |->
                       IF key_of(long, keys, r) = g THEN cell(long, r, Count).n ELSE 0])
        \* sum skips not-a-number
        psum(g)  == sum_seq([r \in 1..n |->
                       IF key_of(long, keys, r) = g
                       THEN int_or_zero(cell(long, r, Pct)) ELSE 0])
        bins(g)  == Cardinality({cell(long, r, Grade) :
                                   r \in {r \in 1..n : key_of(long, keys, r) = g}})
    IN  IF keys = <<>> /\ n > 0 THEN [ok |-> FALSE, agg |-> {}]
        ELSE [ok |-> TRUE,
              agg |-> {[key |-> g,
                        total_counts |-> total(g),
                        pct_sum |-> psum(g),
                        n_grade_bins |-> bins(g),
                        ok_pct_sum |-> ok_pct_sum_of(psum(g)),
                        ok_nonzero |-> ok_nonzero_of(total(g))] : g \in groups}]

----------------------------------------------------------------------------
(* process_files (lines 133-179), called by process (lines 343-348)        *)

\* line 175: df_long.groupby(keys).ngroups; groupby drops the keys that have a
\* missing component unless dropna=False is given
ngroups(long) ==
    LET keys == present_in(TARGET_KEYS, long)
    IN  Cardinality({key_of(long, keys, r) :
                       r \in {r \in 1..Len(long.data) :
                                \A i \in 1..Len(keys) : notna(cell(long, r, keys[i]))}})

NoSummary == [wide_rows |-> 0, sections |-> 0, failed_sections |-> 0]

RunStart ==
    /\ run_dir = {}
    /\ frames = <<>>
    /\ df_wide = EmptyFrame
    /\ df_long = EmptyFrame
    /\ val = {}
    /\ summary = NoSummary
    /\ pc = "load"

RunIdle ==
    /\ upload_paths = <<>>
    /\ header_row = None
    /\ sheets = <<>>
    /\ run_dir = {}
    /\ frames = <<>>
    /\ df_wide = EmptyFrame
    /\ df_long = EmptyFrame
    /\ val = {}
    /\ summary = NoSummary
    /\ pc = "idle"

others == <<normVars, headerVars, sheetVars, inputVars>>

\* line 141
LoadWorkbooks ==
    /\ pc = "load"
    /\ LET loads == [i \in 1..Len(upload_paths) |->
                       load_workbook(upload_paths[i], header_row, sheets)]
       IN  IF \E i \in 1..Len(loads) : ~loads[i].ok
           THEN pc' = "failed" /\ frames' = frames
           ELSE pc' = "concat" /\ frames' = [i \in 1..Len(loads) |-> loads[i].df]
    /\ UNCHANGED <<run_dir, df_wide, df_long, val, summary, others>>

\* line 142
ConcatFrames ==
    /\ pc = "concat"
    /\ df_wide' = concat(frames).df
    /\ pc' = "enrich"
    /\ UNCHANGED <<run_dir, frames, df_long, val, summary, others>>

\* line 143
AddWideChecks ==
    /\ pc = "enrich"
    /\ LET r == add_wide_checks(df_wide)
       IN  IF r.ok THEN pc' = "reshape" /\ df_wide' = r.df
           ELSE pc' = "failed" /\ df_wide' = df_wide
    /\ UNCHANGED <<run_dir, frames, df_long, val, summary, others>>

\* line 144
ToLong ==
    /\ pc = "reshape"
    /\ \E empty_melt_raises \in BOOLEAN :
         LET r == to_long(df_wide, empty_melt_raises)
         IN  IF r.ok THEN pc' = "validate" /\ df_long' = r.df
             ELSE pc' = "failed" /\ df_long' = df_long
    /\ UNCHANGED <<run_dir, frames, df_wide, val, summary, others>>

\* line 145
ValidateLong ==
    /\ pc = "validate"
    /\ LET r == validate_long(df_long)
       IN  IF r.ok THEN pc' = "write_wide" /\ val' = r.agg
           ELSE pc' = "failed" /\ val' = val
    /\ UNCHANGED <<run_dir, frames, df_wide, df_long, summary, others>>

\* one write of the run: it adds the file, or raises (the disk, the Excel
\* writer and its sheet-size limit, the archive) and process gives the run up
Write(at, file, next) ==
    /\ pc = at
    /\ \E written \in BOOLEAN :
         IF written THEN pc' = next /\ run_dir' = run_dir \cup {file}
         ELSE pc' = "failed" /\ run_dir' = run_dir
    /\ UNCHANGED <<frames, df_wide, df_long, val, summary, others>>

\* line 153
WriteWideCsv == Write("write_wide", "grades_combined.csv", "write_long")
\* line 154
WriteLongCsv == Write("write_long", "grades_long.csv", "write_xlsx")
\* lines 156-157
WriteXlsx == Write("write_xlsx", "grades_combined_clean.xlsx", "write_zip")
\* lines 162-166
WriteZip == Write("write_zip", "outputs.zip", "summarize")

\* lines 168-179
Summarize ==
    /\ pc = "summarize"
    /\ summary' = [wide_rows |-> Len(df_wide.data),
                   sections |-> ngroups(df_long),
                   failed_sections |->
                       Cardinality({v \in val : ~v.ok_pct_sum \/ ~v.ok_nonzero})]
    /\ pc' = "completed"
    /\ UNCHANGED <<run_dir, frames, df_wide, df_long, val, others>>

RunNext ==
    \/ LoadWorkbooks \/ ConcatFrames \/ AddWideChecks \/ ToLong \/ ValidateLong
    \/ WriteWideCsv \/ WriteLongCsv \/ WriteXlsx \/ WriteZip \/ Summarize

----------------------------------------------------------------------------
(* Workbooks the specifications draw their inputs from *)

header_cells(labels) == [j \in 1..Len(labels) |-> Str(labels[j])]

\* a title line above the header, as wide as the table
title_row(width) == [j \in 1..width |-> IF j = 1 THEN Str(<<"Title">>) ELSE NaN]

Book(name, sheet_seq) == [name |-> name, sheets |-> sheet_seq]
Sheet(name, grid) == [name |-> name, grid |-> grid]

\* Grade sheets as the upload form expects them: a title line, the header with
\* the labels of REQUIRED_COLS (W and I are optional), then the sections
MaxSheetRows == 2
BaseLabels == SubSeq(REQUIRED_COLS, 1, 10)
SectionRow(course, j, with_w) ==
    <<Str(<<course>>), Str(<<"x">>), Str(<<"Fall">>), Num(j), Num(6),
      Num(j), Num(1), Num(1), Num(1), Num(1)>> \o (IF with_w THEN <<NaN>> ELSE <<>>)
GradeGrid(course, n, with_w) ==
    LET labels == BaseLabels \o (IF with_w THEN << <<"W">> >> ELSE <<>>)
    IN  <<title_row(Len(labels)), header_cells(labels)>>
        \o [j \in 1..n |-> SectionRow(course, j, with_w)]
GradeBooks ==
    {Book(<<course, IF with_w THEN "w" ELSE "_", DIGITS[n + 1]>>,
          <<Sheet(<<"Data">>, GradeGrid(course, n, with_w))>>) :
        course \in {"k1", "k2"}, n \in 0..MaxSheetRows, with_w \in BOOLEAN}
\* no row of the sheet holds the header labels
NoHeaderBook ==
    Book(<<"nohdr">>, <<Sheet(<<"Data">>, <<title_row(10), SectionRow("k1", 1, FALSE)>>)>>)
\* a count that is text
BadCellBook ==
    Book(<<"bad">>, <<Sheet(<<"Data">>,
        <<title_row(10), header_cells(BaseLabels), SectionRow("k1", 1, FALSE),
          [SectionRow("k1", 2, FALSE) EXCEPT ![6] = Str(<<"n/a">>)]>>)>>)
TwoSheetBook ==
    Book(<<"two">>, <<Sheet(<<"Data">>, GradeGrid("k1", 1, FALSE)),
                      Sheet(<<"S2">>, GradeGrid("k2", 1, TRUE))>>)
RunBooks == GradeBooks \cup {NoHeaderBook, BadCellBook, TwoSheetBook}

RunInit ==
    /\ upload_paths \in {<<a>> : a \in RunBooks} \cup {<<a, b>> : a \in RunBooks, b \in RunBooks}
    /\ header_row \in {None, 0, 1}
    /\ sheets \in {<<>>, << <<"0">> >>, << <<"S2">> >>}
    /\ RunStart

\* Small tables with every subset of two key columns and two grade columns,
\* read with an explicit header row
MaxRows == 2
KeyLabelPool   == << <<"CourseID">>, <<"Course", " ", "Name">> >>
GradeLabelPool == << <<"A">>, <<"B">> >>
KeyCells   == {NaN, Str(<<"k1">>)}
GradeCells == {NaN, Num(1), Str(<<"n/a">>)}
SubSeqs(s) == {SelectSeq(s, LAMBDA c : c \in S) : S \in SUBSET Range(s)}
TableGrid(ks, gs, n, kv, gv) ==
    <<header_cells(ks \o <<Enroll>> \o gs)>>
    \o [r \in 1..n |-> kv[r] \o <<Num(2)>> \o gv[r]]

TableInit ==
    /\ \E ks \in SubSeqs(KeyLabelPool), gs \in SubSeqs(GradeLabelPool), n \in 0..MaxRows :
          \E kv \in [1..n -> [1..Len(ks) -> KeyCells]],
             gv \in [1..n -> [1..Len(gs) -> GradeCells]] :
             upload_paths = <<Book(<<"t">>, <<Sheet(<<"Data">>, TableGrid(ks, gs, n, kv, gv))>>)>>
    /\ header_row = 0
    /\ sheets = <<>>
    /\ RunStart

----------------------------------------------------------------------------
(* One workbook and a selector list: resolve_sheet_filter as load_workbook *)
(* calls it (lines 88-91)                                                  *)

MaxSelectors == 2
SelectorPool == {<<>>, <<" ">>, <<"0">>, <<" ", "1", " ">>, <<"2">>, <<"0", "1">>,
                 <<"Fall">>, <<"Spring", " ">>, <<"Winter">>, <<"7">>}
SheetBooks ==
    {Book(<<"wb">>, [i \in 1..Len(ns) |-> Sheet(ns[i], GradeGrid("k1", 1, FALSE))]) :
        ns \in {<< <<"Fall">> >>, << <<"Fall">>, <<"Spring">> >>,
                << <<"Fall">>, <<"7">>, <<"Spring">> >>}}

SheetInit ==
    /\ upload_paths \in {<<b>> : b \in SheetBooks}
    /\ header_row = None
    /\ sheets \in SeqsUpTo(SelectorPool, MaxSelectors)
    /\ resolved = InvalidSelector
    /\ loaded = Raised
    /\ sheet_pc = "call"
    /\ run_dir = {}
    /\ frames = <<>>
    /\ df_wide = EmptyFrame
    /\ df_long = EmptyFrame
    /\ val = {}
    /\ summary = NoSummary
    /\ pc = "idle"

SheetIdle ==
    /\ resolved = InvalidSelector
    /\ loaded = Raised
    /\ sheet_pc = "idle"

LoadWorkbook ==
    /\ sheet_pc = "call"
    /\ resolved' = resolve_sheet_filter(sheet_names(upload_paths[1]), sheets)
    /\ loaded' = load_workbook(upload_paths[1], header_row, sheets)
    /\ sheet_pc' = "done"
    /\ UNCHANGED <<normVars, headerVars, inputVars, runVars>>

----------------------------------------------------------------------------
(* Specifications *)

InitNorm == NormInit /\ HeaderIdle /\ SheetIdle /\ RunIdle
NextNorm == NormalizeOnce \/ NormalizeTwice
SpecNorm == InitNorm /\ [][NextNorm]_vars

InitHeader == HeaderInit /\ NormIdle /\ SheetIdle /\ RunIdle
NextHeader == DetectHeaderRow
SpecHeader == InitHeader /\ [][NextHeader]_vars

InitSheets == SheetInit /\ NormIdle /\ HeaderIdle
NextSheets == LoadWorkbook
SpecSheets == InitSheets /\ [][NextSheets]_vars

\* process_files on uploaded grade workbooks
Init == RunInit /\ NormIdle /\ HeaderIdle /\ SheetIdle
Next == RunNext
Spec == Init /\ [][Next]_vars

\* process_files on one small table
InitTable == TableInit /\ NormIdle /\ HeaderIdle /\ SheetIdle
SpecTable == InitTable /\ [][Next]_vars

----------------------------------------------------------------------------
(* Claims *)

\* the row of the grid with zero-based index i
GridRow(i) == tmp[i + 1]
NonEmptyCells(row) == {row[j] : j \in {j \in 1..Len(row) : row[j] # NaN}}

\* C1 as stated: a cell value counts lowercased with its spaces removed
C1_StatedLabels(row) == {remove_spaces(lower(str(v))) : v \in NonEmptyCells(row)}
C1_StatedMatch(i) ==
    {remove_spaces(lower(c)) : c \in required_cols} \subseteq C1_StatedLabels(GridRow(i))

\* C1 (as stated): detect_header_row returns the zero-based index of the first
\* row whose non-empty cell values, lowercased with spaces removed, include
\* every required label (lowercased with spaces removed); no earlier row
\* matches; when no row matches it raises instead of returning.
C1_FirstMatch_Stated ==
    /\ header_pc = "returned" =>
          /\ header_i \in 0..(Len(tmp) - 1)
          /\ C1_StatedMatch(header_i)
          /\ \A j \in 0..(header_i - 1) : ~C1_StatedMatch(j)
    /\ header_pc = "raised" => \A j \in 0..(Len(tmp) - 1) : ~C1_StatedMatch(j)

\* the cell value is first trimmed of the whitespace around it
C1_TrimmedLabels(row) ==
    {remove_spaces(lower(strip(str(v)))) : v \in NonEmptyCells(row)}
C1_TrimmedMatch(i) ==
    {remove_spaces(lower(c)) : c \in required_cols} \subseteq C1_TrimmedLabels(GridRow(i))

\* C1 (amended): detect_header_row returns the zero-based index of the first
\* row whose non-empty cell values, each trimmed of surrounding whitespace,
\* lowercased and with spaces removed, include every required label
\* (lowercased with spaces removed); no earlier row matches; when no row
\* matches it raises instead of returning.
C1_FirstMatch ==
    /\ header_pc = "returned" =>
          /\ header_i \in 0..(Len(tmp) - 1)
          /\ C1_TrimmedMatch(header_i)
          /\ \A j \in 0..(header_i - 1) : ~C1_TrimmedMatch(j)
    /\ header_pc = "raised" => \A j \in 0..(Len(tmp) - 1) : ~C1_TrimmedMatch(j)

\* the third row is the first to hold both labels, one of them behind a tab
C1_Witness ==
    /\ header_pc = "returned"
    /\ header_i = 2
    /\ required_cols = {<<"A">>, <<"B">>}
    /\ Len(tmp) = 3
    /\ tmp[3] = <<Str(<<"b", " ">>), Str(<<"\t", "A">>)>>
    /\ tmp[1] = <<Str(<<"\t", "A">>), NaN>>

\* C2: what a selector names in the workbook
C2_Names == sheet_names(upload_paths[1])
C2_Resolves(s) ==
    IF isdigit(s) THEN int(s) \in 0..(Len(C2_Names) - 1) ELSE s \in Range(C2_Names)
C2_Target(s) == IF isdigit(s) THEN C2_Names[int(s) + 1] ELSE s
C2_Trimmed  == [i \in 1..Len(sheets) |-> strip(sheets[i])]
C2_Nonblank == SelectSeq(C2_Trimmed, LAMBDA s : s # <<>>)
\* the sheet each loaded row came from
C2_LoadedSheets == [r \in 1..Len(loaded.df.data) |-> cell(loaded.df, r, <<"Sheet">>).s]

\* C2 (as stated): with no selection resolve_sheet_filter returns every sheet
\* in native order; otherwise it returns, in selector order, exactly one sheet
\* per selector (all-digit: the sheet at that index; else the sheet of that
\* name); if any selector does not resolve it fails and the workbook load
\* aborts; no selector is skipped silently.
C2_OnePerSelector_Stated ==
    sheet_pc = "done" =>
        IF sheets = <<>> THEN resolved.ok /\ resolved.names = C2_Names
        ELSE IF \A i \in 1..Len(sheets) : C2_Resolves(C2_Trimmed[i])
             THEN /\ resolved.ok
                  /\ resolved.names = [i \in 1..Len(sheets) |-> C2_Target(C2_Trimmed[i])]
             ELSE ~resolved.ok /\ ~loaded.ok

\* C2 (amended): with no selection resolve_sheet_filter returns every sheet in
\* native order; otherwise each selector is trimmed, selectors that are then
\* empty are ignored, and it returns, in selector order, exactly one sheet per
\* remaining selector (all-digit: the sheet at that index within
\* [0, sheet_count); else the sheet of that name); if any remaining selector
\* does not resolve it fails and the workbook load aborts; the load delivers
\* the rows of the resolved sheets in that order.
C2_OnePerSelector ==
    sheet_pc = "done" =>
        /\ IF sheets = <<>> THEN resolved.ok /\ resolved.names = C2_Names
           ELSE IF \A i \in 1..Len(C2_Nonblank) : C2_Resolves(C2_Nonblank[i])
                THEN /\ resolved.ok
                     /\ resolved.names =
                          [i \in 1..Len(C2_Nonblank) |-> C2_Target(C2_Nonblank[i])]
                ELSE ~resolved.ok /\ ~loaded.ok
        /\ loaded.ok => resolved.ok /\ C2_LoadedSheets = resolved.names

\* a blank selector is ignored, a padded name resolves, an index resolves
C2_Witness ==
    /\ sheet_pc = "done"
    /\ sheets = << <<" ">>, <<"Spring", " ">> >>
    /\ C2_Names = << <<"Fall">>, <<"Spring">> >>
    /\ resolved.ok
    /\ resolved.names = << <<"Spring">> >>
    /\ loaded.ok

ARTIFACTS == {"grades_combined.csv", "grades_long.csv",
              "grades_combined_clean.xlsx", "outputs.zip"}

\* C3: a failure of any stage aborts the run, and after a failed run the
\* destination holds no output artifact: the complete set (wide file, long
\* file, workbook copy, archive) is persisted, or nothing is.
C3_AllOrNothing ==
    /\ pc = "failed" => run_dir = {}
    /\ pc = "completed" => run_dir = ARTIFACTS

\* the wide table is enriched from here on
Enriched == pc \in {"reshape", "validate", "write_wide", "write_long", "write_xlsx",
                    "write_zip", "summarize", "completed"}
\* the long table exists from here on
Reshaped == pc \in {"validate", "write_wide", "write_long", "write_xlsx",
                    "write_zip", "summarize", "completed"}
Validated == pc \in {"write_wide", "write_long", "write_xlsx",
                     "write_zip", "summarize", "completed"}

C4_Present == present_in(GRADE_COLS, df_wide)
C4_RowCounts(r) == [i \in 1..Len(C4_Present) |-> cell(df_wide, r, C4_Present[i])]

\* C4: after add_wide_checks, in every row GradeTotal equals the sum of the
\* row's values in the grade columns that are present (stated for the rows
\* whose grade cells are numbers or missing, where that sum is defined).
C4_GradeTotalIsSum ==
    (Enriched /\ C4_Present # <<>>) =>
        \A r \in 1..Len(df_wide.data) :
            (\A i \in 1..Len(C4_Present) : C4_RowCounts(r)[i].k # "str") =>
                /\ has_col(df_wide, GradeTotal)
                /\ cell(df_wide, r, GradeTotal) =
                      Num(sum_seq([i \in 1..Len(C4_Present) |->
                                     int_or_zero(C4_RowCounts(r)[i])]))

\* the SectionKey of a long row: its values in the key columns that are present
LongKeys == present_in(TARGET_KEYS, df_long)
SectionKey(r) == [i \in 1..Len(LongKeys) |-> cell(df_long, r, LongKeys[i])]
SectionKeys == {SectionKey(r) : r \in 1..Len(df_long.data)}
SectionCount(g) ==
    sum_seq([r \in 1..Len(df_long.data) |->
               IF SectionKey(r) = g THEN cell(df_long, r, Count).n ELSE 0])
SectionPct(g) ==
    sum_seq([r \in 1..Len(df_long.data) |->
               IF SectionKey(r) = g /\ cell(df_long, r, Pct).k = "int"
               THEN cell(df_long, r, Pct).n ELSE 0])

\* C5: in the long table, for every SectionKey with a nonzero total Count the
\* sum of Pct over the rows of that key lies within [0.99, 1.01].
C5_PctSumsToOne ==
    Reshaped =>
        \A g \in SectionKeys :
            SectionCount(g) # 0 =>
                /\ 100 * SectionPct(g) >= 99 * PctScale
                /\ 100 * SectionPct(g) <= 101 * PctScale

\* two wide rows of one section (CourseID given, Course_Name missing) with
\* three counts of 1 and a missing one: the shares add up to just under 1
C5_Witness ==
    /\ Reshaped
    /\ Len(LongKeys) = 2
    /\ Len(df_long.data) = 4
    /\ \E g \in SectionKeys :
          /\ g[1] # NaN /\ g[2] = NaN
          /\ SectionCount(g) = 3 /\ SectionPct(g) = PctScale - 1

\* C6: validate_long yields for every SectionKey of the long table one record,
\* whose ok_nonzero is true exactly when the key's total Count is > 0.
C6_OkNonzero ==
    Validated =>
        /\ {v.key : v \in val} = SectionKeys
        /\ \A v, w \in val : v.key = w.key => v = w
        /\ \A v \in val : v.ok_nonzero <=> SectionCount(v.key) > 0

\* one section with total count zero and one with a positive total
C6_Witness ==
    /\ Validated
    /\ \E v, w \in val :
          /\ SectionCount(v.key) = 0 /\ ~v.ok_nonzero
          /\ SectionCount(w.key) > 0 /\ w.ok_nonzero

\* C7: two single-sheet workbooks whose SectionKeys are disjoint
C7_FrameKeys(f) ==
    {key_of(f, present_in(TARGET_KEYS, f), r) : r \in 1..Len(f.data)}
C7_Case ==
    /\ Reshaped
    /\ Len(upload_paths) = 2
    /\ \A i \in 1..2 : Len(upload_paths[i].sheets) = 1
    /\ C7_FrameKeys(frames[1]) \cap C7_FrameKeys(frames[2]) = {}
C7_GradeColumns(f) == Len(present_in(GRADE_COLS, f))

\* C7 (as stated): the long table has, summed over the two workbooks,
\* (the workbook's wide rows) x (the workbook's present grade columns) rows.
C7_RowCount_Stated ==
    C7_Case =>
        Len(df_long.data) =
            Len(frames[1].data) * C7_GradeColumns(frames[1])
            + Len(frames[2].data) * C7_GradeColumns(frames[2])

\* C7 (amended): the long table has (the wide rows of the two workbooks
\* together) x (the grade columns present in the concatenated table, that is
\* in either workbook) rows.
C7_RowCount ==
    C7_Case =>
        Len(df_long.data) =
            (Len(frames[1].data) + Len(frames[2].data)) * C7_GradeColumns(df_wide)

\* one workbook has the W column and the other has not; both have rows
C7_Witness ==
    /\ C7_Case
    /\ C7_GradeColumns(frames[1]) = 6 /\ Len(frames[1].data) = 2
    /\ C7_GradeColumns(frames[2]) = 5 /\ Len(frames[2].data) = 1
    /\ Len(df_long.data) = 18

\* C9: the summary's sections is the number of distinct SectionKeys of the
\* long table, a key with a missing component counting as a section; it is
\* the number of validation records, and failed_sections never exceeds it.
C9_Sections ==
    pc = "completed" =>
        /\ summary.sections = Cardinality(SectionKeys)
        /\ summary.sections = Cardinality(val)
        /\ summary.failed_sections <= summary.sections

\* C10: for every subset of the key columns present in the wide table,
\* to_long and validate_long complete without raising: no run fails at the
\* reshape or the validation of a table whose counts are numbers or missing.
C10_NeverFailsOnKeys ==
    (/\ pc = "failed"
     /\ has_col(df_wide, GradeTotal)
     /\ \A r \in 1..Len(df_wide.data) :
           \A i \in 1..Len(C4_Present) : C4_RowCounts(r)[i].k # "str")
        => df_long # EmptyFrame

(* C8: column-name normalisation is idempotent: normalising the labels     *)
(* that clean_columns produced gives the same labels again.                *)
C8_Idempotent == norm_pc = "twice" => columns_2 = columns_1

\* a label that the first pass trims and aliases has been normalised twice
C8_Witness ==
    /\ norm_pc = "twice"
    /\ columns_in = << <<" ", "Course", "Name">> >>
    /\ columns_1 = <<Course_Name>>

====
